---------------------------- MODULE Spec2Model ----------------------------
(***************************************************************************)
(* Recipe-Bot (src/src/main.rs): the record codec (save_recipe and         *)
(* parse_recipe_file), the weekly scheduler (CreateWeeklyRecipesScreen)     *)
(* with the web server's readers, and the PDF layout (generate_recipe_pdf). *)
(*                                                                         *)
(* A Rust String is modelled as a sequence of one-character strings, so    *)
(* that trimming, splitting and line reading are computed character by     *)
(* character.  SpecCodec, SpecParse, SpecReadFile, SpecSched,             *)
(* SpecRandomize, SpecServe and SpecLayout each run one component; the     *)
(* variables of the components a specification does not run stay at their *)
(* idle value.  SpecTerminate runs one operation at a time to its return.  *)
(***************************************************************************)
EXTENDS Integers, Sequences, FiniteSets, TLC

VARIABLES
    \* CreateRecipeManuallyScreen and the record it writes
    screen,            \* the fields of CreateRecipeManuallyScreen
    edits,             \* number of widget interactions so far (bounded)
    rec_file,          \* the record written by save_recipe: [exists, bytes]
    parsed,            \* last result of parse_recipe_file on rec_file
    \* parse_recipe_file, line by line, on an arbitrary record
    p_pc,              \* "idle" | "loop" | "ok" | "err"
    p_recipe,          \* the Recipe under construction
    p_section,         \* current_section
    p_line,            \* the line read last: [ok, text]
    p_read,            \* number of lines read (bounded)
    \* CreateWeeklyRecipesScreen, the files it works on, the web server
    recipes,           \* the pool load_recipes listed
    selected_recipes,  \* the seven slots
    picks,             \* number of slot interactions so far (bounded)
    processing_message,\* "" | "ok" | "err": the status line's kind
    disk,              \* recipes/dinner and schedule/
    run,               \* the locals of process_selected_recipes
    runs,              \* number of "Process Selected Recipes" clicks (bounded)
    served_schedule,   \* last response of GET /schedule
    served_ingredients,\* last response of GET /ingredients
    \* generate_recipe_pdf
    l_recipe,          \* the Recipe parse_recipe_file returned
    l_block,           \* index of the next add_text call or gap
    l_lines,           \* add_text's wrapped_lines still to place
    y_position,        \* state.y_position
    current_page,      \* state.current_page, pages counted from 1
    l_count,           \* number of use_text calls so far
    l_last             \* the line use_text placed last: [text, size, x, y, page]

codecVars == <<screen, edits, rec_file, parsed>>
parseVars == <<p_pc, p_recipe, p_section, p_line, p_read>>
schedVars ==
    <<recipes, selected_recipes, picks, processing_message, disk, run, runs,
      served_schedule, served_ingredients>>
layoutVars ==
    <<l_recipe, l_block, l_lines, y_position, current_page, l_count, l_last>>
vars == <<codecVars, parseVars, schedVars, layoutVars>>

---------------------------------------------------------------------------
(* Strings                                                                 *)

\* A byte that is not valid UTF-8: BufRead::lines yields Err for its line.
BadByte == "<FF>"

\* char::is_whitespace, over the characters of the model
IsWhitespace(c) == c \in {" ", "\t", "\n", "\r"}

\* str::trim
Trim(s) ==
    LET keep == {i \in 1..Len(s) : ~IsWhitespace(s[i])}
    IN  IF keep = {} THEN <<>>
        ELSE LET lo == CHOOSE i \in keep : \A j \in keep : i <= j
                 hi == CHOOSE i \in keep : \A j \in keep : j <= i
             IN  SubSeq(s, lo, hi)

\* str::contains(char)
Contains(s, c) == \E i \in 1..Len(s) : s[i] = c

\* str::splitn(2, c)
SplitN2(s, c) ==
    IF ~Contains(s, c) THEN <<s>>
    ELSE LET at == CHOOSE i \in 1..Len(s) :
                       s[i] = c /\ \A j \in 1..(i - 1) : s[j] # c
         IN  <<SubSeq(s, 1, at - 1), SubSeq(s, at + 1, Len(s))>>

\* The first index of s at or after i whose character satisfies the test
\* given as the set of its indexes, or 0 when there is none
FirstAtOrAfter(hits, i) ==
    IF \E j \in hits : j >= i
    THEN CHOOSE j \in hits : j >= i /\ \A k \in hits : k >= i => j <= k
    ELSE 0

\* str::split(char): "" gives one empty piece, "a," gives "a" and ""
RECURSIVE SplitFrom(_, _, _)
SplitFrom(s, hits, i) ==
    LET at == FirstAtOrAfter(hits, i)
    IN  IF at = 0 THEN <<SubSeq(s, i, Len(s))>>
        ELSE <<SubSeq(s, i, at - 1)>> \o SplitFrom(s, hits, at + 1)

Split(s, c) == SplitFrom(s, {i \in 1..Len(s) : s[i] = c}, 1)

\* str::split_whitespace: the maximal runs of non-whitespace characters
RECURSIVE WordsFrom(_, _, _, _)
WordsFrom(s, blanks, inked, i) ==
    LET from == FirstAtOrAfter(inked, i)
        to == FirstAtOrAfter(blanks, from)
    IN  IF from = 0 THEN <<>>
        ELSE IF to = 0 THEN <<SubSeq(s, from, Len(s))>>
        ELSE <<SubSeq(s, from, to - 1)>> \o WordsFrom(s, blanks, inked, to + 1)

SplitWhitespace(s) ==
    WordsFrom(s, {i \in 1..Len(s) : IsWhitespace(s[i])},
              {i \in 1..Len(s) : ~IsWhitespace(s[i])}, 1)

\* One item of BufRead::lines: Ok(text) without its "\n" (and without the
\* "\r" before it), or Err when the line is not valid UTF-8.
MkLine(raw) ==
    LET text == IF raw # <<>> /\ raw[Len(raw)] = "\r"
                THEN SubSeq(raw, 1, Len(raw) - 1) ELSE raw
    IN  [ok |-> ~Contains(raw, BadByte), text |-> text]

\* BufRead::lines: a last line without "\n" is a line when it is not empty
RECURSIVE LinesFrom(_, _, _)
LinesFrom(b, newlines, i) ==
    LET at == FirstAtOrAfter(newlines, i)
    IN  IF i > Len(b) THEN <<>>
        ELSE IF at = 0 THEN <<MkLine(SubSeq(b, i, Len(b)))>>
        ELSE <<MkLine(SubSeq(b, i, at - 1))>> \o LinesFrom(b, newlines, at + 1)

Lines(b) == LinesFrom(b, {i \in 1..Len(b) : b[i] = "\n"}, 1)

\* writeln!(file, "{}", s)
WriteLn(s) == s \o <<"\n">>

RECURSIVE Concat(_)
Concat(ss) == IF ss = <<>> THEN <<>> ELSE Head(ss) \o Concat(Tail(ss))

---------------------------------------------------------------------------
(* The record format's literals                                            *)

TAB == <<"\t">>
KTitle == <<"T","i","t","l","e">>
KFrom == <<"F","r","o","m">>
KServings == <<"S","e","r","v","i","n","g","s">>
KPrepTime == <<"P","r","e","p"," ","T","i","m","e">>
KCookTime == <<"C","o","o","k"," ","T","i","m","e">>
KTotalTime == <<"T","o","t","a","l"," ","T","i","m","e">>
WIngredients == <<"I","n","g","r","e","d","i","e","n","t","s">>
WInstructions == <<"I","n","s","t","r","u","c","t","i","o","n","s">>
WNotes == <<"N","o","t","e","s">>
WStart == <<" ","S","t","a","r","t">>
WEnd == <<" ","E","n","d">>
IngredientsStart == WIngredients \o WStart
IngredientsEnd == WIngredients \o WEnd
InstructionsStart == WInstructions \o WStart
InstructionsEnd == WInstructions \o WEnd
NotesStart == WNotes \o WStart
NotesEnd == WNotes \o WEnd
Markers ==
    {IngredientsStart, IngredientsEnd, InstructionsStart, InstructionsEnd,
     NotesStart, NotesEnd}

---------------------------------------------------------------------------
(* parse_recipe_file                                                       *)

EmptyRecipe ==
    [title |-> <<>>, from |-> <<>>, servings |-> <<>>, prep_time |-> <<>>,
     cook_time |-> <<>>, total_time |-> <<>>,
     ingreds |-> <<>>, instructions |-> <<>>, notes |-> <<>>]

\* The state the loop carries: the recipe and current_section
ParseStart == [recipe |-> EmptyRecipe, section |-> ""]

\* HeaderLine taking the value as it stands after the tab
HeaderLineUntrimmedValue(st, line) ==
    LET parts == SplitN2(line, "\t")
        key == Trim(parts[1])
        val == parts[2]
        r == st.recipe
    IN  IF Len(parts) # 2 THEN st
        ELSE IF key = KTitle THEN [st EXCEPT !.recipe = [r EXCEPT !.title = val]]
        ELSE IF key = KFrom THEN [st EXCEPT !.recipe = [r EXCEPT !.from = val]]
        ELSE IF key = KServings THEN [st EXCEPT !.recipe = [r EXCEPT !.servings = val]]
        ELSE IF key = KPrepTime THEN [st EXCEPT !.recipe = [r EXCEPT !.prep_time = val]]
        ELSE IF key = KCookTime THEN [st EXCEPT !.recipe = [r EXCEPT !.cook_time = val]]
        ELSE IF key = KTotalTime THEN [st EXCEPT !.recipe = [r EXCEPT !.total_time = val]]
        ELSE st

\* A line with a tab: the match on parts[0].trim()
HeaderLine(st, line) ==
    LET parts == SplitN2(line, "\t")
        key == Trim(parts[1])
        val == Trim(parts[2])
        r == st.recipe
    IN  IF Len(parts) # 2 THEN st
        ELSE IF key = KTitle THEN [st EXCEPT !.recipe = [r EXCEPT !.title = val]]
        ELSE IF key = KFrom THEN [st EXCEPT !.recipe = [r EXCEPT !.from = val]]
        ELSE IF key = KServings THEN [st EXCEPT !.recipe = [r EXCEPT !.servings = val]]
        ELSE IF key = KPrepTime THEN [st EXCEPT !.recipe = [r EXCEPT !.prep_time = val]]
        ELSE IF key = KCookTime THEN [st EXCEPT !.recipe = [r EXCEPT !.cook_time = val]]
        ELSE IF key = KTotalTime THEN [st EXCEPT !.recipe = [r EXCEPT !.total_time = val]]
        ELSE st

\* BodyLine with the Notes arm pushing onto instructions (a copied arm)
BodyLineNotesIntoInstructions(st, line) ==
    LET r == st.recipe
        t == Trim(line)
    IN  IF st.section = "Ingredients"
        THEN [st EXCEPT !.recipe = [r EXCEPT !.ingreds = Append(r.ingreds, t)]]
        ELSE IF st.section \in {"Instructions", "Notes"}
        THEN [st EXCEPT !.recipe = [r EXCEPT !.instructions = Append(r.instructions, t)]]
        ELSE st

\* BodyLine with the last arm pushing onto notes when no section is open
BodyLineNoSectionIntoNotes(st, line) ==
    LET r == st.recipe
        t == Trim(line)
    IN  IF st.section = "Ingredients"
        THEN [st EXCEPT !.recipe = [r EXCEPT !.ingreds = Append(r.ingreds, t)]]
        ELSE IF st.section = "Instructions"
        THEN [st EXCEPT !.recipe = [r EXCEPT !.instructions = Append(r.instructions, t)]]
        ELSE [st EXCEPT !.recipe = [r EXCEPT !.notes = Append(r.notes, t)]]

\* A line without a tab that is no marker: the match on current_section
BodyLine(st, line) ==
    LET r == st.recipe
        t == Trim(line)
    IN  IF st.section = "Ingredients"
        THEN [st EXCEPT !.recipe = [r EXCEPT !.ingreds = Append(r.ingreds, t)]]
        ELSE IF st.section = "Instructions"
        THEN [st EXCEPT !.recipe = [r EXCEPT !.instructions = Append(r.instructions, t)]]
        ELSE IF st.section = "Notes"
        THEN [st EXCEPT !.recipe = [r EXCEPT !.notes = Append(r.notes, t)]]
        ELSE st

\* SectionLine with an End marker closing its own section only
SectionLineOwnEndOnly(st, line) ==
    LET t == Trim(line)
    IN  IF t = IngredientsStart THEN [st EXCEPT !.section = "Ingredients"]
        ELSE IF t = IngredientsEnd
            THEN (IF st.section = "Ingredients" THEN [st EXCEPT !.section = ""] ELSE st)
        ELSE IF t = InstructionsStart THEN [st EXCEPT !.section = "Instructions"]
        ELSE IF t = InstructionsEnd
            THEN (IF st.section = "Instructions" THEN [st EXCEPT !.section = ""] ELSE st)
        ELSE IF t = NotesStart THEN [st EXCEPT !.section = "Notes"]
        ELSE IF t = NotesEnd
            THEN (IF st.section = "Notes" THEN [st EXCEPT !.section = ""] ELSE st)
        ELSE BodyLine(st, line)

\* A line without a tab: the match on line.trim()
SectionLine(st, line) ==
    LET t == Trim(line)
    IN  IF t = IngredientsStart THEN [st EXCEPT !.section = "Ingredients"]
        ELSE IF t = IngredientsEnd THEN [st EXCEPT !.section = ""]
        ELSE IF t = InstructionsStart THEN [st EXCEPT !.section = "Instructions"]
        ELSE IF t = InstructionsEnd THEN [st EXCEPT !.section = ""]
        ELSE IF t = NotesStart THEN [st EXCEPT !.section = "Notes"]
        ELSE IF t = NotesEnd THEN [st EXCEPT !.section = ""]
        ELSE BodyLine(st, line)

\* ParseLine with a blank line closing the open section instead of being
\* skipped
ParseLineBlankClosesSection(st, line) ==
    IF Trim(line) = <<>> THEN [st EXCEPT !.section = ""]
    ELSE IF Contains(line, "\t") THEN HeaderLine(st, line)
    ELSE SectionLine(st, line)

\* ParseLine without the `continue` on a blank line
ParseLineKeepingBlank(st, line) ==
    IF Contains(line, "\t") THEN HeaderLine(st, line)
    ELSE SectionLine(st, line)

\* The body of the loop over reader.lines(), for a line that was read
ParseLine(st, line) ==
    IF Trim(line) = <<>> THEN st
    ELSE IF Contains(line, "\t") THEN HeaderLine(st, line)
    ELSE SectionLine(st, line)

\* The loop: `line?` returns the error of the first line that cannot be read
RECURSIVE ParseLoop(_, _, _)
ParseLoop(items, i, st) ==
    IF i > Len(items) THEN [ok |-> TRUE, recipe |-> st.recipe]
    ELSE IF ~items[i].ok THEN [ok |-> FALSE, recipe |-> EmptyRecipe]
    ELSE ParseLoop(items, i + 1, ParseLine(st, items[i].text))

\* parse_recipe_file on a file [exists, bytes]: File::open fails on a
\* missing file.  An Err carries no recipe (EmptyRecipe stands for none).
parse_recipe_file(file) ==
    IF ~file.exists THEN [ok |-> FALSE, recipe |-> EmptyRecipe]
    ELSE ParseLoop(Lines(file.bytes), 1, ParseStart)

---------------------------------------------------------------------------
(* CreateRecipeManuallyScreen                                              *)

\* Bounds of the model
MaxEdits == 4
MaxItems == 2
MaxLines == 5

ScalarFields ==
    {"title", "from", "servings", "prep_time", "cook_time", "total_time"}

\* What the user may type into a single-line field, into an instruction or
\* note, and into the comma separated ingredients box
ScalarTexts == {<<"a">>, <<" ", "a">>}
InstructionTexts == {<<"x">>, <<"x", "\t", "y">>, NotesEnd}
NoteTexts == {<<"y">>, <<" ", "y">>}
IngredientTexts == {<<"p", ",", " ", "q">>, <<"p", "\n", "q">>}

\* impl Default for CreateRecipeManuallyScreen
DefaultScreen ==
    [title |-> <<>>, from |-> <<>>, servings |-> <<>>, prep_time |-> <<>>,
     cook_time |-> <<>>, total_time |-> <<>>, ingredients |-> <<>>,
     instructions |-> << <<>> >>, notes |-> << <<>> >>]

NoFile == [exists |-> FALSE, bytes |-> <<>>]
NotParsed == [done |-> FALSE, ok |-> FALSE, recipe |-> EmptyRecipe]

RemoveAt(seq, idx) == SubSeq(seq, 1, idx - 1) \o SubSeq(seq, idx + 1, Len(seq))

\* The ingredients save_recipe writes: self.ingredients.split(','), trimmed
IngredientItems(s) ==
    LET pieces == Split(s, ",")
    IN  [i \in 1..Len(pieces) |-> Trim(pieces[i])]

\* WriteLines leaving out the empty items
RECURSIVE WriteLinesSkippingEmpty(_)
WriteLinesSkippingEmpty(items) ==
    IF items = <<>> THEN <<>>
    ELSE (IF Head(items) = <<>> THEN <<>> ELSE WriteLn(Head(items)))
         \o WriteLinesSkippingEmpty(Tail(items))

\* for x in items { writeln!(file, "{}", x)?; }
RECURSIVE WriteLines(_)
WriteLines(items) ==
    IF items = <<>> THEN <<>>
    ELSE WriteLn(Head(items)) \o WriteLines(Tail(items))

\* The bytes save_recipe writes for the screen's fields
Serialize(sc) ==
    WriteLn(KTitle \o TAB \o sc.title)
    \o WriteLn(KFrom \o TAB \o sc.from)
    \o WriteLn(KServings \o TAB \o sc.servings)
    \o WriteLn(KPrepTime \o TAB \o sc.prep_time)
    \o WriteLn(KCookTime \o TAB \o sc.cook_time)
    \o WriteLn(KTotalTime \o TAB \o sc.total_time)
    \o WriteLn(IngredientsStart)
    \o WriteLines(IngredientItems(sc.ingredients))
    \o WriteLn(IngredientsEnd)
    \o WriteLn(InstructionsStart)
    \o WriteLines(sc.instructions)
    \o WriteLn(InstructionsEnd)
    \o WriteLn(NotesStart)
    \o WriteLines(sc.notes)
    \o WriteLn(NotesEnd)

\* The model follows a form for at most MaxEdits interactions and up to its
\* first save: the record then stays as it was saved.
CanEdit == edits < MaxEdits /\ ~rec_file.exists

\* A text_edit_singleline of one of the six scalar fields changed
EditScalar ==
    /\ CanEdit
    /\ \E f \in ScalarFields, v \in ScalarTexts :
           screen' = [screen EXCEPT ![f] = v]
    /\ edits' = edits + 1
    /\ UNCHANGED <<rec_file, parsed, parseVars, schedVars, layoutVars>>

\* The text_edit_multiline of the ingredients changed
EditIngredients ==
    /\ CanEdit
    /\ \E v \in IngredientTexts : screen' = [screen EXCEPT !.ingredients = v]
    /\ edits' = edits + 1
    /\ UNCHANGED <<rec_file, parsed, parseVars, schedVars, layoutVars>>

\* The text of instruction idx changed: self.instructions[idx] = text
EditInstruction ==
    /\ CanEdit
    /\ \E idx \in 1..Len(screen.instructions), v \in InstructionTexts :
           screen' = [screen EXCEPT !.instructions[idx] = v]
    /\ edits' = edits + 1
    /\ UNCHANGED <<rec_file, parsed, parseVars, schedVars, layoutVars>>

\* "-" beside instruction idx, only while more than one is left
RemoveInstruction ==
    /\ CanEdit
    /\ Len(screen.instructions) > 1
    /\ \E idx \in 1..Len(screen.instructions) :
           screen' = [screen EXCEPT !.instructions = RemoveAt(@, idx)]
    /\ edits' = edits + 1
    /\ UNCHANGED <<rec_file, parsed, parseVars, schedVars, layoutVars>>

\* "Add Instruction": push(String::new())
AddInstruction ==
    /\ CanEdit
    /\ Len(screen.instructions) < MaxItems
    /\ screen' = [screen EXCEPT !.instructions = Append(@, <<>>)]
    /\ edits' = edits + 1
    /\ UNCHANGED <<rec_file, parsed, parseVars, schedVars, layoutVars>>

EditNote ==
    /\ CanEdit
    /\ \E idx \in 1..Len(screen.notes), v \in NoteTexts :
           screen' = [screen EXCEPT !.notes[idx] = v]
    /\ edits' = edits + 1
    /\ UNCHANGED <<rec_file, parsed, parseVars, schedVars, layoutVars>>

RemoveNote ==
    /\ CanEdit
    /\ Len(screen.notes) > 1
    /\ \E idx \in 1..Len(screen.notes) :
           screen' = [screen EXCEPT !.notes = RemoveAt(@, idx)]
    /\ edits' = edits + 1
    /\ UNCHANGED <<rec_file, parsed, parseVars, schedVars, layoutVars>>

AddNote ==
    /\ CanEdit
    /\ Len(screen.notes) < MaxItems
    /\ screen' = [screen EXCEPT !.notes = Append(@, <<>>)]
    /\ edits' = edits + 1
    /\ UNCHANGED <<rec_file, parsed, parseVars, schedVars, layoutVars>>

\* "Save Recipe": save_recipe writes the record (its I/O succeeding)
SaveRecipe ==
    /\ rec_file' = [exists |-> TRUE, bytes |-> Serialize(screen)]
    /\ parsed' = NotParsed
    /\ UNCHANGED <<screen, edits, parseVars, schedVars, layoutVars>>

\* "View Recipe" on the saved record: parse_recipe_file(&recipe_path)
ViewRecipe ==
    /\ rec_file.exists
    /\ ~parsed.done
    /\ parsed' = [done |-> TRUE] @@ parse_recipe_file(rec_file)
    /\ UNCHANGED <<screen, edits, rec_file, parseVars, schedVars, layoutVars>>

---------------------------------------------------------------------------
(* parse_recipe_file as a process reading an arbitrary record line by line *)

\* The lines an arbitrary record may hold
RecordLines ==
    Markers \cup
    {<<>>, <<" ">>,
     KTitle \o TAB \o <<"a">>,
     <<" ">> \o KServings \o <<" ">> \o TAB \o <<" ", "4", " ">>,
     <<"k", "\t", "v">>,
     KFrom \o TAB \o <<"x", "\t", "y">>,
     <<"b">>, <<" ", "c", " ">>,
     <<" ">> \o NotesEnd \o <<" ">>}

\* File::open succeeded: the loop starts
ParseOpen ==
    /\ p_pc = "idle"
    /\ p_pc' = "loop"
    /\ p_recipe' = EmptyRecipe
    /\ p_section' = ""
    /\ UNCHANGED <<p_line, p_read, codecVars, schedVars, layoutVars>>

\* File::open failed: the `?` returns the error
ParseOpenFails ==
    /\ p_pc = "idle"
    /\ p_pc' = "err"
    /\ UNCHANGED <<p_recipe, p_section, p_line, p_read, codecVars, schedVars, layoutVars>>

\* One iteration of the loop on a line that was read
ParseReadLine ==
    /\ p_pc = "loop"
    /\ p_read < MaxLines
    /\ \E line \in RecordLines :
           LET st == ParseLine([recipe |-> p_recipe, section |-> p_section], line)
           IN  /\ p_recipe' = st.recipe
               /\ p_section' = st.section
               /\ p_line' = [ok |-> TRUE, text |-> line]
    /\ p_read' = p_read + 1
    /\ UNCHANGED <<p_pc, codecVars, schedVars, layoutVars>>

\* `line?` on a line that cannot be read: the function returns the error
\* and the recipe built so far is dropped
ParseReadFails ==
    /\ p_pc = "loop"
    /\ p_read < MaxLines
    /\ p_pc' = "err"
    /\ p_recipe' = EmptyRecipe
    /\ p_line' = [ok |-> FALSE, text |-> <<>>]
    /\ p_read' = p_read + 1
    /\ UNCHANGED <<p_section, codecVars, schedVars, layoutVars>>

\* The lines are exhausted: Ok(recipe)
ParseEnd ==
    /\ p_pc = "loop"
    /\ p_pc' = "ok"
    /\ UNCHANGED <<p_recipe, p_section, p_line, p_read, codecVars, schedVars, layoutVars>>

---------------------------------------------------------------------------
(* parse_recipe_file as a process reading a given file to its end          *)

\* Bound of the model: the lines of a file
MaxFileLines == 3

\* The lines a file may hold, each with its line end; the last is not valid
\* UTF-8
RawLines ==
    {<<"\n">>,
     <<" ", "\n">>,
     KTitle \o TAB \o <<"a", "\n">>,
     WriteLn(IngredientsStart),
     WriteLn(IngredientsEnd),
     WriteLn(NotesStart),
     <<"b", "\r", "\n">>,
     <<" ", "c", " ", "\n">>,
     <<BadByte, "\n">>}

\* The contents of the files of up to n lines
RECURSIVE FileBytes(_)
FileBytes(n) ==
    IF n = 0 THEN {<<>>}
    ELSE LET shorter == FileBytes(n - 1)
         IN  shorter \cup {b \o l : b \in shorter, l \in RawLines}

\* The path names no file, or a file of up to MaxFileLines lines
Files ==
    {NoFile} \cup {[exists |-> TRUE, bytes |-> b] : b \in FileBytes(MaxFileLines)}

\* reader.lines() of the file
ReadItems == Lines(rec_file.bytes)

\* File::open succeeded: the loop starts
ReadOpen ==
    /\ p_pc = "idle"
    /\ rec_file.exists
    /\ p_pc' = "loop"
    /\ p_recipe' = EmptyRecipe
    /\ p_section' = ""
    /\ UNCHANGED <<p_line, p_read, codecVars, schedVars, layoutVars>>

\* File::open failed: the `?` returns the error
ReadOpenFails ==
    /\ p_pc = "idle"
    /\ ~rec_file.exists
    /\ p_pc' = "err"
    /\ UNCHANGED <<p_recipe, p_section, p_line, p_read, codecVars, schedVars, layoutVars>>

\* The step that drops the recipe built so far replaced by one keeping it
ReadLineFailsKeepingRecipe ==
    /\ p_pc = "loop"
    /\ p_read < Len(ReadItems)
    /\ ~ReadItems[p_read + 1].ok
    /\ p_pc' = "err"
    /\ p_line' = ReadItems[p_read + 1]
    /\ p_read' = p_read + 1
    /\ UNCHANGED <<p_recipe, p_section, codecVars, schedVars, layoutVars>>

\* One iteration of the loop on the next line of the file
ReadLine ==
    /\ p_pc = "loop"
    /\ p_read < Len(ReadItems)
    /\ ReadItems[p_read + 1].ok
    /\ LET st == ParseLine([recipe |-> p_recipe, section |-> p_section],
                           ReadItems[p_read + 1].text)
       IN  /\ p_recipe' = st.recipe
           /\ p_section' = st.section
    /\ p_line' = ReadItems[p_read + 1]
    /\ p_read' = p_read + 1
    /\ UNCHANGED <<p_pc, codecVars, schedVars, layoutVars>>

\* `line?` on a line that cannot be read: the function returns the error
\* and the recipe built so far is dropped
ReadLineFails ==
    /\ p_pc = "loop"
    /\ p_read < Len(ReadItems)
    /\ ~ReadItems[p_read + 1].ok
    /\ p_pc' = "err"
    /\ p_recipe' = EmptyRecipe
    /\ p_line' = ReadItems[p_read + 1]
    /\ p_read' = p_read + 1
    /\ UNCHANGED <<p_section, codecVars, schedVars, layoutVars>>

\* The lines are exhausted: Ok(recipe)
ReadEnd ==
    /\ p_pc = "loop"
    /\ p_read = Len(ReadItems)
    /\ p_pc' = "ok"
    /\ UNCHANGED <<p_recipe, p_section, p_line, p_read, codecVars, schedVars, layoutVars>>

---------------------------------------------------------------------------
(* CreateWeeklyRecipesScreen: the slots                                    *)

\* vec![String::new(); 7] and the days array
NumDays == 7
Monday == <<"M","o","n","d","a","y">>
Tuesday == <<"T","u","e","s","d","a","y">>
Wednesday == <<"W","e","d","n","e","s","d","a","y">>
Thursday == <<"T","h","u","r","s","d","a","y">>
Friday == <<"F","r","i","d","a","y">>
Saturday == <<"S","a","t","u","r","d","a","y">>
Sunday == <<"S","u","n","d","a","y">>
Days == <<Monday, Tuesday, Wednesday, Thursday, Friday, Saturday, Sunday>>

\* Bounds of the model
MaxPicks == 2
MaxRuns == 1

\* The records of recipes/dinner
Pasta == <<"P","a","s","t","a">>
Soup == <<"S","o","u","p">>
Salt == <<"S","a","l","t">>
Broth == <<"B","r","o","t","h">>
Boil == <<"B","o","i","l">>
Names == {Pasta, Soup}

PastaRecord ==
    WriteLn(KTitle \o TAB \o Pasta)
    \o WriteLn(IngredientsStart) \o WriteLn(Pasta) \o WriteLn(Salt)
    \o WriteLn(IngredientsEnd)
    \o WriteLn(InstructionsStart) \o WriteLn(Boil) \o WriteLn(InstructionsEnd)

\* What save_recipe writes between the markers for the ingredients "Broth,":
\* the piece after the comma is an empty line
SoupRecord ==
    WriteLn(IngredientsStart) \o WriteLn(Broth) \o WriteLn(<<>>)
    \o WriteLn(IngredientsEnd)

\* A record with a line that is not valid UTF-8
UnreadableRecord ==
    WriteLn(IngredientsStart) \o WriteLn(Broth) \o WriteLn(<<BadByte>>)
    \o WriteLn(IngredientsEnd)

File(bytes) == [exists |-> TRUE, bytes |-> bytes]

\* No response of the web server yet
NotServed == [status |-> "none", items |-> <<>>]

\* Soup.rec as the run finds it: a record, an unreadable record, or deleted
\* since load_recipes listed it
SoupFiles == {File(SoupRecord), File(UnreadableRecord), NoFile}

\* schedule/ before the first run of this session: not there yet, or as an
\* earlier session's run of Tuesday = Pasta left it
FreshSchedule ==
    [dir_exists |-> FALSE, days |-> [i \in 1..NumDays |-> NoFile],
     ingredients |-> NoFile, schedule |-> NoFile]

EarlierSchedule ==
    [dir_exists |-> TRUE,
     days |-> [i \in 1..NumDays |-> IF i = 2 THEN File(PastaRecord) ELSE NoFile],
     ingredients |-> File(WriteLn(Pasta) \o WriteLn(Salt)),
     schedule |-> File(WriteLn(Tuesday \o <<":", " ">> \o Pasta))]

\* The disks a session may start on.  writable: files of schedule/ (and
\* schedule/ itself) can be created and written.
Disks ==
    {[dinner |-> [n \in Names |-> IF n = Pasta THEN File(PastaRecord) ELSE soup],
      writable |-> w] @@ sched :
        soup \in SoupFiles, w \in BOOLEAN,
        sched \in {FreshSchedule, EarlierSchedule}}

\* load_recipes: the file stems of recipes/dinner/*.rec, in directory order
load_recipes == <<Pasta, Soup>>

\* impl Default for CreateWeeklyRecipesScreen
DefaultSlots == [i \in 1..NumDays |-> <<>>]

\* Draws with a draw that may come out empty though the pool is not
DrawsOrEmpty(pool) == {<<>>} \cup {pool[j] : j \in 1..Len(pool)}

\* self.recipes.choose(&mut rng).unwrap_or(&String::new()): the values a draw
\* may give
Draws(pool) ==
    IF pool = <<>> THEN {<<>>} ELSE {pool[j] : j \in 1..Len(pool)}

\* The selection is followed up to the session's first run (a later run finds
\* the same slots), and for MaxPicks changes
CanPick == picks < MaxPicks /\ run.pc = "idle"

\* A ComboBox entry of slot i was clicked: selectable_value sets the slot
SelectRecipe ==
    /\ CanPick
    /\ \E i \in 1..NumDays, j \in 1..Len(recipes) :
           selected_recipes' = [selected_recipes EXCEPT ![i] = recipes[j]]
    /\ picks' = picks + 1
    /\ UNCHANGED <<recipes, processing_message, disk, run, runs,
                   served_schedule, served_ingredients, codecVars, parseVars,
                   layoutVars>>

\* randomize_single pushing the draw when idx is past the last slot
randomize_single_pushing(slots, pool, idx, draw) ==
    IF idx \in 1..Len(slots) THEN [slots EXCEPT ![idx] = draw]
    ELSE Append(slots, draw)

\* randomize_single(idx), idx counted from 1 here: get_mut gives None past
\* the last slot and nothing is assigned
randomize_single(slots, pool, idx, draw) ==
    IF idx \in 1..Len(slots) THEN [slots EXCEPT ![idx] = draw] ELSE slots

RandomizeSingle ==
    /\ CanPick
    /\ \E idx \in 1..(NumDays + 1), draw \in Draws(recipes) :
           selected_recipes' = randomize_single(selected_recipes, recipes, idx, draw)
    /\ picks' = picks + 1
    /\ UNCHANGED <<recipes, processing_message, disk, run, runs,
                   served_schedule, served_ingredients, codecVars, parseVars,
                   layoutVars>>

\* randomize_all: every slot gets a draw of its own, draws[i] for slot i
randomize_all(slots, pool, draws) == [i \in DOMAIN slots |-> draws[i]]

RandomizeAll ==
    /\ CanPick
    /\ \E draws \in [DOMAIN selected_recipes -> Draws(recipes)] :
           selected_recipes' = randomize_all(selected_recipes, recipes, draws)
    /\ picks' = picks + 1
    /\ UNCHANGED <<recipes, processing_message, disk, run, runs,
                   served_schedule, served_ingredients, codecVars, parseVars,
                   layoutVars>>

---------------------------------------------------------------------------
(* process_selected_recipes                                                *)

Colon == <<":", " ">>

\* The locals of a run: slots is the self.selected_recipes it iterates, i the
\* loop's index.  Two fields are a history of the run: copied, the slots
\* whose fs::copy was done, and before, schedule/ as the run found it.
IdleRun ==
    [pc |-> "idle", slots |-> DefaultSlots, i |-> 1,
     process_ingredients |-> <<>>, process_schedule |-> <<>>,
     copied |-> {}, before |-> FreshSchedule, result |-> "none"]

\* schedule/ of a disk
ScheduleDir(d) ==
    [dir_exists |-> d.dir_exists, days |-> d.days,
     ingredients |-> d.ingredients, schedule |-> d.schedule]

StartRun(slots, d) ==
    [IdleRun EXCEPT !.pc = "create_dir", !.slots = slots, !.before = ScheduleDir(d)]

Failed(r) == [r EXCEPT !.pc = "done", !.result = "err"]

Lookup(dinner, name) == IF name \in DOMAIN dinner THEN dinner[name] ELSE NoFile

\* The loop over reader.lines() of a record: the lines between
\* "Ingredients Start" and "Ingredients End", each with a "\n"
RECURSIVE ScanIngredients(_, _, _, _)
ScanIngredients(items, i, in_ingredients, acc) ==
    IF i > Len(items) THEN [ok |-> TRUE, text |-> acc]
    ELSE IF ~items[i].ok THEN [ok |-> FALSE, text |-> acc]
    ELSE IF Trim(items[i].text) = IngredientsStart
    THEN ScanIngredients(items, i + 1, TRUE, acc)
    ELSE IF Trim(items[i].text) = IngredientsEnd
    THEN ScanIngredients(items, i + 1, FALSE, acc)
    ELSE IF in_ingredients
    THEN ScanIngredients(items, i + 1, TRUE, acc \o items[i].text \o <<"\n">>)
    ELSE ScanIngredients(items, i + 1, FALSE, acc)

\* fs::create_dir_all("schedule")
StepCreateDir(r, d) ==
    IF d.dir_exists THEN [run |-> [r EXCEPT !.pc = "day"], disk |-> d]
    ELSE IF d.writable
    THEN [run |-> [r EXCEPT !.pc = "day"], disk |-> [d EXCEPT !.dir_exists = TRUE]]
    ELSE [run |-> Failed(r), disk |-> d]

\* StepDay removing schedule/<day>.rec of an empty slot
StepDayRemovingStale(r, d) ==
    IF r.i > Len(r.slots) THEN [run |-> [r EXCEPT !.pc = "create_ingredients"], disk |-> d]
    ELSE IF r.slots[r.i] = <<>>
    THEN [run |-> [r EXCEPT !.i = r.i + 1],
          disk |-> IF d.writable THEN [d EXCEPT !.days[r.i] = NoFile] ELSE d]
    ELSE LET src == Lookup(d.dinner, r.slots[r.i])
         IN  IF ~src.exists \/ ~d.writable THEN [run |-> Failed(r), disk |-> d]
             ELSE [run |-> [r EXCEPT !.pc = "read",
                                     !.copied = @ \cup {r.i},
                                     !.process_schedule =
                                         @ \o Days[r.i] \o Colon \o r.slots[r.i] \o <<"\n">>],
                   disk |-> [d EXCEPT !.days[r.i] = File(src.bytes)]]

\* StepDay without the `continue` on an empty slot
StepDayNoSkip(r, d) ==
    IF r.i > Len(r.slots) THEN [run |-> [r EXCEPT !.pc = "create_ingredients"], disk |-> d]
    ELSE LET src == Lookup(d.dinner, r.slots[r.i])
         IN  IF ~src.exists \/ ~d.writable THEN [run |-> Failed(r), disk |-> d]
             ELSE [run |-> [r EXCEPT !.pc = "read",
                                     !.copied = @ \cup {r.i},
                                     !.process_schedule =
                                         @ \o Days[r.i] \o Colon \o r.slots[r.i] \o <<"\n">>],
                   disk |-> [d EXCEPT !.days[r.i] = File(src.bytes)]]

\* StepDay with the report's day label taken one place further (days[i + 1],
\* wrapping)
StepDayNextLabel(r, d) ==
    IF r.i > Len(r.slots) THEN [run |-> [r EXCEPT !.pc = "create_ingredients"], disk |-> d]
    ELSE IF r.slots[r.i] = <<>> THEN [run |-> [r EXCEPT !.i = r.i + 1], disk |-> d]
    ELSE LET src == Lookup(d.dinner, r.slots[r.i])
         IN  IF ~src.exists \/ ~d.writable THEN [run |-> Failed(r), disk |-> d]
             ELSE [run |-> [r EXCEPT !.pc = "read",
                                     !.copied = @ \cup {r.i},
                                     !.process_schedule =
                                         @ \o Days[(r.i % NumDays) + 1] \o Colon
                                           \o r.slots[r.i] \o <<"\n">>],
                   disk |-> [d EXCEPT !.days[r.i] = File(src.bytes)]]

\* StepDay with the copy written to the file of the day after (wrapping)
StepDayNextFile(r, d) ==
    IF r.i > Len(r.slots) THEN [run |-> [r EXCEPT !.pc = "create_ingredients"], disk |-> d]
    ELSE IF r.slots[r.i] = <<>> THEN [run |-> [r EXCEPT !.i = r.i + 1], disk |-> d]
    ELSE LET src == Lookup(d.dinner, r.slots[r.i])
         IN  IF ~src.exists \/ ~d.writable THEN [run |-> Failed(r), disk |-> d]
             ELSE [run |-> [r EXCEPT !.pc = "read",
                                     !.copied = @ \cup {r.i},
                                     !.process_schedule =
                                         @ \o Days[r.i] \o Colon \o r.slots[r.i] \o <<"\n">>],
                   disk |-> [d EXCEPT !.days[(r.i % NumDays) + 1] = File(src.bytes)]]

\* The head of the loop body for slot r.i: `continue` on an empty slot, else
\* fs::copy to schedule/<day>.rec and the report's line
StepDay(r, d) ==
    IF r.i > Len(r.slots) THEN [run |-> [r EXCEPT !.pc = "create_ingredients"], disk |-> d]
    ELSE IF r.slots[r.i] = <<>> THEN [run |-> [r EXCEPT !.i = r.i + 1], disk |-> d]
    ELSE LET src == Lookup(d.dinner, r.slots[r.i])
         IN  IF ~src.exists \/ ~d.writable THEN [run |-> Failed(r), disk |-> d]
             ELSE [run |-> [r EXCEPT !.pc = "read",
                                     !.copied = @ \cup {r.i},
                                     !.process_schedule =
                                         @ \o Days[r.i] \o Colon \o r.slots[r.i] \o <<"\n">>],
                   disk |-> [d EXCEPT !.days[r.i] = File(src.bytes)]]

\* The rest of the loop body: File::open and the scan of the record
StepRead(r, d) ==
    LET src == Lookup(d.dinner, r.slots[r.i])
        scan == ScanIngredients(Lines(src.bytes), 1, FALSE, <<>>)
    IN  IF ~src.exists \/ ~scan.ok THEN [run |-> Failed(r), disk |-> d]
        ELSE [run |-> [r EXCEPT !.pc = "day", !.i = r.i + 1,
                                !.process_ingredients = @ \o scan.text],
              disk |-> d]

\* File::create("schedule/ingredients.sup"): the file is there and empty
StepCreateIngredients(r, d) ==
    IF ~d.writable THEN [run |-> Failed(r), disk |-> d]
    ELSE [run |-> [r EXCEPT !.pc = "write_ingredients"],
          disk |-> [d EXCEPT !.ingredients = File(<<>>)]]

\* StepWriteIngredients publishing both summaries in one operation
StepWriteBothSummaries(r, d) ==
    [run |-> [r EXCEPT !.pc = "create_schedule"],
     disk |-> [d EXCEPT !.ingredients = File(r.process_ingredients),
                        !.schedule = File(r.process_schedule)]]

\* ingredients_file.write_all
StepWriteIngredients(r, d) ==
    [run |-> [r EXCEPT !.pc = "create_schedule"],
     disk |-> [d EXCEPT !.ingredients = File(r.process_ingredients)]]

\* File::create("schedule/schedule.txt")
StepCreateSchedule(r, d) ==
    IF ~d.writable THEN [run |-> Failed(r), disk |-> d]
    ELSE [run |-> [r EXCEPT !.pc = "write_schedule"],
          disk |-> [d EXCEPT !.schedule = File(<<>>)]]

\* StepWriteSchedule going back to File::create of ingredients.sup instead
\* of returning
StepWriteScheduleStartingOver(r, d) ==
    [run |-> [r EXCEPT !.pc = "create_ingredients"],
     disk |-> [d EXCEPT !.schedule = File(r.process_schedule)]]

\* schedule_file.write_all, and Ok(())
StepWriteSchedule(r, d) ==
    [run |-> [r EXCEPT !.pc = "done", !.result = "ok"],
     disk |-> [d EXCEPT !.schedule = File(r.process_schedule)]]

\* One file system operation of process_selected_recipes
MatStep(r, d) ==
    IF r.pc = "create_dir" THEN StepCreateDir(r, d)
    ELSE IF r.pc = "day" THEN StepDay(r, d)
    ELSE IF r.pc = "read" THEN StepRead(r, d)
    ELSE IF r.pc = "create_ingredients" THEN StepCreateIngredients(r, d)
    ELSE IF r.pc = "write_ingredients" THEN StepWriteIngredients(r, d)
    ELSE IF r.pc = "create_schedule" THEN StepCreateSchedule(r, d)
    ELSE IF r.pc = "write_schedule" THEN StepWriteSchedule(r, d)
    ELSE [run |-> r, disk |-> d]

\* process_selected_recipes from its first operation to its return
RECURSIVE RunToReturn(_, _)
RunToReturn(r, d) ==
    IF r.pc = "done" THEN [run |-> r, disk |-> d]
    ELSE LET next == MatStep(r, d)
         IN  RunToReturn(next.run, next.disk)

process_selected_recipes(d, slots) == RunToReturn(StartRun(slots, d), d)

\* "Process Selected Recipes", as the GUI thread runs it: the message is
\* cleared, the run returns, the message tells how
ProcessSelectedRecipes ==
    /\ run.pc \in {"idle", "done"}
    /\ runs < MaxRuns
    /\ LET end == process_selected_recipes(disk, selected_recipes)
       IN  /\ run' = end.run
           /\ disk' = end.disk
           /\ processing_message' = end.run.result
    /\ runs' = runs + 1
    /\ UNCHANGED <<recipes, selected_recipes, picks,
                   served_schedule, served_ingredients, codecVars, parseVars,
                   layoutVars>>

---------------------------------------------------------------------------
(* The web server's thread beside a run of the GUI thread                  *)

\* The click on "Process Selected Recipes": clear_processing_message, and
\* process_selected_recipes is entered.  Between this and the return the
\* GUI thread is inside the handler; the server thread is not held back.
EnterProcess ==
    /\ run.pc \in {"idle", "done"}
    /\ runs < MaxRuns
    /\ run' = StartRun(selected_recipes, disk)
    /\ processing_message' = ""
    /\ runs' = runs + 1
    /\ UNCHANGED <<recipes, selected_recipes, picks, disk,
                   served_schedule, served_ingredients, codecVars, parseVars,
                   layoutVars>>

\* The next file system operation of the run; the last one returns and the
\* handler sets the message
ProcessStep ==
    /\ run.pc \notin {"idle", "done"}
    /\ LET next == MatStep(run, disk)
       IN  /\ run' = next.run
           /\ disk' = next.disk
           /\ processing_message' =
                  IF next.run.pc = "done" THEN next.run.result
                  ELSE processing_message
    /\ UNCHANGED <<recipes, selected_recipes, picks, runs,
                   served_schedule, served_ingredients, codecVars, parseVars,
                   layoutVars>>

\* line.splitn(2, ": ")
SplitN2Str(s) ==
    LET hits == {i \in 1..(Len(s) - 1) : s[i] = ":" /\ s[i + 1] = " "}
        at == FirstAtOrAfter(hits, 1)
    IN  IF at = 0 THEN <<s>>
        ELSE <<SubSeq(s, 1, at - 1), SubSeq(s, at + 2, Len(s))>>

\* The element schedule() makes of a line: <div class="day"> with the day
\* and the meal, or without the div the line as heading and as meal
ScheduleItem(line) ==
    LET parts == SplitN2Str(line)
    IN  IF Len(parts) = 2
        THEN [day_div |-> TRUE, h2 |-> parts[1], meal |-> parts[2]]
        ELSE [day_div |-> FALSE, h2 |-> parts[1], meal |-> parts[1]]

\* The element ingredients() makes of a line: <p class="item"> of line.trim()
IngredientItem(line) == [item |-> Trim(line)]

\* path.exists() and fs::read_to_string(path)?: NotFound, an error on bytes
\* that are not UTF-8, or the lines of the contents
ReadLines(file) ==
    IF ~file.exists THEN [status |-> "not_found", lines |-> <<>>]
    ELSE IF Contains(file.bytes, BadByte) THEN [status |-> "err", lines |-> <<>>]
    ELSE [status |-> "ok",
          lines |-> [k \in 1..Len(Lines(file.bytes)) |-> Lines(file.bytes)[k].text]]

\* GET /schedule
schedule(d) ==
    LET read == ReadLines(d.schedule)
    IN  [status |-> read.status,
         items |-> [k \in 1..Len(read.lines) |-> ScheduleItem(read.lines[k])]]

\* GET /ingredients
ingredients(d) ==
    LET read == ReadLines(d.ingredients)
    IN  [status |-> read.status,
         items |-> [k \in 1..Len(read.lines) |-> IngredientItem(read.lines[k])]]

ServeSchedule ==
    /\ served_schedule' = schedule(disk)
    /\ UNCHANGED <<recipes, selected_recipes, picks, processing_message, disk,
                   run, runs, served_ingredients, codecVars, parseVars,
                   layoutVars>>

ServeIngredients ==
    /\ served_ingredients' = ingredients(disk)
    /\ UNCHANGED <<recipes, selected_recipes, picks, processing_message, disk,
                   run, runs, served_schedule, codecVars, parseVars,
                   layoutVars>>

---------------------------------------------------------------------------
(* generate_recipe_pdf                                                     *)

\* PdfDocument::new(.., Mm(210.0), Mm(297.0), ..) and the x of the title
PageWidth == 210
Margin == 10

\* let max_width = 680.0; // Page width minus margins
max_width == 680

\* y_position: 280.0 at the start and on a new page; a new page below 20.0;
\* size + 2.0 per line; 10.0 of space between the parts
StartingY == 280
BottomMargin == 20
LineGap == 2
Space == 10

TitleSize == 20
DetailSize == 14
HeadingSize == 16
ItemSize == 12
ItemX == 15

\* The bytes of the bullet the source file has before "{}"
Bullet == <<"<C3>", "<A2>", "<E2>", "<82>", "<AC>", "<C2>", "<A2>">>

\* wrap_text's widths, in tenths of a unit: font_size * 0.6 a byte of a
\* word or of current_line, font_size * 0.3 the space to add.  For the
\* sizes of generate_recipe_pdf no sum of these is nearer to max_width than
\* 0.4, so the f32 comparison decides as the integers do.
CharWidth10(font_size) == font_size * 6
SpaceWidth10(font_size) == font_size * 3

\* WrapFrom without the push of current_line after the loop
RECURSIVE WrapFromDroppingLast(_, _, _, _, _, _)
WrapFromDroppingLast(words, i, current_line, lines, font_size, width) ==
    IF i > Len(words) THEN lines
    ELSE IF current_line = <<>>
    THEN WrapFromDroppingLast(words, i + 1, words[i], lines, font_size, width)
    ELSE IF Len(current_line) * CharWidth10(font_size) + SpaceWidth10(font_size)
                + Len(words[i]) * CharWidth10(font_size) <= width * 10
    THEN WrapFromDroppingLast(words, i + 1, current_line \o <<" ">> \o words[i],
                              lines, font_size, width)
    ELSE WrapFromDroppingLast(words, i + 1, words[i], Append(lines, current_line),
                              font_size, width)

\* The loop of wrap_text over words, from word i on, and the push after it
RECURSIVE WrapFrom(_, _, _, _, _, _)
WrapFrom(words, i, current_line, lines, font_size, width) ==
    IF i > Len(words)
    THEN IF current_line # <<>> THEN Append(lines, current_line) ELSE lines
    ELSE IF current_line = <<>>
    THEN WrapFrom(words, i + 1, words[i], lines, font_size, width)
    ELSE IF Len(current_line) * CharWidth10(font_size) + SpaceWidth10(font_size)
                + Len(words[i]) * CharWidth10(font_size) <= width * 10
    THEN WrapFrom(words, i + 1, current_line \o <<" ">> \o words[i], lines,
                  font_size, width)
    ELSE WrapFrom(words, i + 1, words[i], Append(lines, current_line),
                  font_size, width)

wrap_text(text, font_size, width) ==
    WrapFrom(SplitWhitespace(text), 1, <<>>, <<>>, font_size, width)

\* An add_text call, or a `state.y_position -= 10.0`
TextBlock(text, size, x) == [space |-> FALSE, text |-> text, size |-> size, x |-> x]
SpaceBlock == [space |-> TRUE, text |-> <<>>, size |-> 0, x |-> 0]

\* Blocks with the Notes heading also when there are no notes
BlocksNotesHeadingAlways(r) ==
    <<TextBlock(r.title, TitleSize, Margin),
      TextBlock(KFrom \o Colon \o r.from, DetailSize, Margin),
      TextBlock(KServings \o Colon \o r.servings, DetailSize, Margin),
      TextBlock(KPrepTime \o Colon \o r.prep_time, DetailSize, Margin),
      TextBlock(KCookTime \o Colon \o r.cook_time, DetailSize, Margin),
      TextBlock(KTotalTime \o Colon \o r.total_time, DetailSize, Margin),
      SpaceBlock,
      TextBlock(WIngredients \o <<":">>, HeadingSize, Margin)>>
    \o [k \in 1..Len(r.ingreds) |->
            TextBlock(Bullet \o <<" ">> \o r.ingreds[k], ItemSize, ItemX)]
    \o <<SpaceBlock, TextBlock(WInstructions \o <<":">>, HeadingSize, Margin)>>
    \o [k \in 1..Len(r.instructions) |->
            TextBlock(r.instructions[k], ItemSize, ItemX)]
    \o <<SpaceBlock>>
    \o <<TextBlock(WNotes \o <<":">>, HeadingSize, Margin)>>
    \o [k \in 1..Len(r.notes) |-> TextBlock(r.notes[k], ItemSize, ItemX)]

\* The calls of generate_recipe_pdf for a Recipe, in their order
Blocks(r) ==
    <<TextBlock(r.title, TitleSize, Margin),
      TextBlock(KFrom \o Colon \o r.from, DetailSize, Margin),
      TextBlock(KServings \o Colon \o r.servings, DetailSize, Margin),
      TextBlock(KPrepTime \o Colon \o r.prep_time, DetailSize, Margin),
      TextBlock(KCookTime \o Colon \o r.cook_time, DetailSize, Margin),
      TextBlock(KTotalTime \o Colon \o r.total_time, DetailSize, Margin),
      SpaceBlock,
      TextBlock(WIngredients \o <<":">>, HeadingSize, Margin)>>
    \o [k \in 1..Len(r.ingreds) |->
            TextBlock(Bullet \o <<" ">> \o r.ingreds[k], ItemSize, ItemX)]
    \o <<SpaceBlock, TextBlock(WInstructions \o <<":">>, HeadingSize, Margin)>>
    \o [k \in 1..Len(r.instructions) |->
            TextBlock(r.instructions[k], ItemSize, ItemX)]
    \o <<SpaceBlock>>
    \o (IF r.notes # <<>>
        THEN <<TextBlock(WNotes \o <<":">>, HeadingSize, Margin)>>
             \o [k \in 1..Len(r.notes) |-> TextBlock(r.notes[k], ItemSize, ItemX)]
        ELSE <<>>)

\* The loop body of add_text with the page test after use_text
place_line_break_after(y, page, size) ==
    LET below == y - (size + LineGap)
    IN  [y |-> y,
         page |-> page,
         next_page |-> IF below < BottomMargin THEN page + 1 ELSE page,
         y_position |-> IF below < BottomMargin THEN StartingY ELSE below]

\* The loop body of add_text for one line: below 20.0 a new page and
\* y_position = 280.0, then use_text at y_position on the current page, then
\* y_position -= size + 2.0
place_line(y, page, size) ==
    LET at == IF y < BottomMargin THEN StartingY ELSE y
        on == IF y < BottomMargin THEN page + 1 ELSE page
    IN  [y |-> at, page |-> on, next_page |-> on,
         y_position |-> at - (size + LineGap)]

\* Bounds of the model: items of a section, instructions
MaxLayoutItems == 11
MaxLayoutSteps == 2

RECURSIVE Repeat(_, _)
Repeat(s, n) == IF n = 0 THEN <<>> ELSE s \o Repeat(s, n - 1)

\* n words of k letters with a space between them
Words(n, k) ==
    Repeat(Repeat(<<"a">>, k) \o <<" ">>, n - 1) \o Repeat(<<"a">>, k)

\* A word wider than max_width at TitleSize, between two short ones
WideTitle == <<"a", " ">> \o Repeat(<<"a">>, 57) \o <<" ", "a">>

LayoutTitles == {<<>>, Pasta, Words(2, 28), WideTitle}
LayoutItemTexts == {Salt, Words(3, 10), Words(9, 11)}

\* The Recipes generate_recipe_pdf is followed on
LayoutRecipes ==
    {[EmptyRecipe EXCEPT
         !.title = t,
         !.servings = <<"4">>,
         !.ingreds = [k \in 1..n |-> it],
         !.instructions = [k \in 1..m |-> Boil],
         !.notes = nt] :
        t \in LayoutTitles, n \in 0..MaxLayoutItems, it \in LayoutItemTexts,
        m \in 0..MaxLayoutSteps, nt \in {<<>>, <<Salt>>}}

NoLine == [text |-> <<>>, size |-> 0, x |-> 0, y |-> 0, page |-> 0]

InAddText == l_lines # <<>>
NextBlock == Blocks(l_recipe)[l_block]
HasBlock == ~InAddText /\ l_block <= Len(Blocks(l_recipe))

\* add_text is called: wrap_text gives the lines to place
AddText ==
    /\ HasBlock /\ ~NextBlock.space
    /\ LET wrapped_lines == wrap_text(NextBlock.text, NextBlock.size, max_width)
       IN  /\ l_lines' = wrapped_lines
           /\ l_block' = IF wrapped_lines = <<>> THEN l_block + 1 ELSE l_block
    /\ UNCHANGED <<l_recipe, y_position, current_page, l_count, l_last,
                   codecVars, parseVars, schedVars>>

\* One iteration of add_text's loop; after the last line add_text returns
PlaceLine ==
    /\ InAddText
    /\ LET placed == place_line(y_position, current_page, NextBlock.size)
       IN  /\ l_last' = [text |-> Head(l_lines), size |-> NextBlock.size,
                         x |-> NextBlock.x, y |-> placed.y, page |-> placed.page]
           /\ y_position' = placed.y_position
           /\ current_page' = placed.next_page
    /\ l_lines' = Tail(l_lines)
    /\ l_count' = l_count + 1
    /\ l_block' = IF Tail(l_lines) = <<>> THEN l_block + 1 ELSE l_block
    /\ UNCHANGED <<l_recipe, codecVars, parseVars, schedVars>>

\* state.y_position -= 10.0; // Add some space
AddSpace ==
    /\ HasBlock /\ NextBlock.space
    /\ y_position' = y_position - Space
    /\ l_block' = l_block + 1
    /\ UNCHANGED <<l_recipe, l_lines, current_page, l_count, l_last,
                   codecVars, parseVars, schedVars>>

---------------------------------------------------------------------------
(* Specifications                                                          *)

CodecIdle ==
    /\ screen = DefaultScreen
    /\ edits = 0
    /\ rec_file = NoFile
    /\ parsed = NotParsed

ParseIdle ==
    /\ p_pc = "idle"
    /\ p_recipe = EmptyRecipe
    /\ p_section = ""
    /\ p_line = [ok |-> TRUE, text |-> <<>>]
    /\ p_read = 0

\* No session of CreateWeeklyRecipesScreen
SchedIdle ==
    /\ recipes = <<>>
    /\ selected_recipes = DefaultSlots
    /\ picks = 0
    /\ processing_message = ""
    /\ disk = [dinner |-> [n \in Names |-> NoFile], writable |-> TRUE] @@ FreshSchedule
    /\ run = IdleRun
    /\ runs = 0
    /\ served_schedule = NotServed
    /\ served_ingredients = NotServed

\* No run of generate_recipe_pdf
LayoutIdle ==
    /\ l_recipe = EmptyRecipe
    /\ l_block = 1
    /\ l_lines = <<>>
    /\ y_position = StartingY
    /\ current_page = 1
    /\ l_count = 0
    /\ l_last = NoLine

\* The recipe form, its record and the parse of that record
CodecInit == CodecIdle /\ ParseIdle /\ SchedIdle /\ LayoutIdle

CodecNext ==
    \/ EditScalar
    \/ EditIngredients
    \/ EditInstruction
    \/ RemoveInstruction
    \/ AddInstruction
    \/ EditNote
    \/ RemoveNote
    \/ AddNote
    \/ SaveRecipe
    \/ ViewRecipe

SpecCodec == CodecInit /\ [][CodecNext]_vars

\* parse_recipe_file over every record of at most MaxLines lines
ParseInit == CodecIdle /\ ParseIdle /\ SchedIdle /\ LayoutIdle

ParseNext ==
    \/ ParseOpen
    \/ ParseOpenFails
    \/ ParseReadLine
    \/ ParseReadFails
    \/ ParseEnd

SpecParse == ParseInit /\ [][ParseNext]_vars

\* parse_recipe_file on each of the files
ReadFileInit ==
    /\ screen = DefaultScreen
    /\ edits = 0
    /\ rec_file \in Files
    /\ parsed = NotParsed
    /\ ParseIdle /\ SchedIdle /\ LayoutIdle

ReadFileNext ==
    \/ ReadOpen
    \/ ReadOpenFails
    \/ ReadLine
    \/ ReadLineFails
    \/ ReadEnd

SpecReadFile == ReadFileInit /\ [][ReadFileNext]_vars

\* A session of CreateWeeklyRecipesScreen on each of the disks
SchedInit ==
    /\ CodecIdle /\ ParseIdle /\ LayoutIdle
    /\ recipes = load_recipes
    /\ selected_recipes = DefaultSlots
    /\ picks = 0
    /\ processing_message = ""
    /\ disk \in Disks
    /\ run = IdleRun
    /\ runs = 0
    /\ served_schedule = NotServed
    /\ served_ingredients = NotServed

SchedNext ==
    \/ SelectRecipe
    \/ RandomizeSingle
    \/ RandomizeAll
    \/ ProcessSelectedRecipes

SpecSched == SchedInit /\ [][SchedNext]_vars

\* The pools load_recipes may have listed: no record, one, two
Pools == {<<>>, <<Pasta>>, <<Pasta, Soup>>}

\* The slots of a session on each of the pools
RandomizeInit ==
    /\ CodecIdle /\ ParseIdle /\ LayoutIdle
    /\ recipes \in Pools
    /\ selected_recipes = DefaultSlots
    /\ picks = 0
    /\ processing_message = ""
    /\ disk = [dinner |-> [n \in Names |-> NoFile], writable |-> TRUE] @@ FreshSchedule
    /\ run = IdleRun
    /\ runs = 0
    /\ served_schedule = NotServed
    /\ served_ingredients = NotServed

RandomizeNext ==
    \/ SelectRecipe
    \/ RandomizeSingle
    \/ RandomizeAll

SpecRandomize == RandomizeInit /\ [][RandomizeNext]_vars

\* A session of CreateWeeklyRecipesScreen with the web server's thread
\* beside it, on the disk an earlier session's run left: the run goes one
\* file system operation at a time and GET /schedule and GET /ingredients
\* are answered at any point of it
ServeInit ==
    /\ SchedInit
    /\ disk.writable
    /\ disk.dir_exists
    /\ disk.dinner[Soup] = File(SoupRecord)

ServeNext ==
    \/ SelectRecipe
    \/ EnterProcess
    \/ ProcessStep
    \/ ServeSchedule
    \/ ServeIngredients

SpecServe == ServeInit /\ [][ServeNext]_vars

\* generate_recipe_pdf on each of LayoutRecipes, from the state after
\* parse_recipe_file and PdfDocument::new
LayoutInit ==
    /\ CodecIdle /\ ParseIdle /\ SchedIdle
    /\ l_recipe \in LayoutRecipes
    /\ l_block = 1
    /\ l_lines = <<>>
    /\ y_position = StartingY
    /\ current_page = 1
    /\ l_count = 0
    /\ l_last = NoLine

LayoutNext ==
    \/ AddText
    \/ PlaceLine
    \/ AddSpace

SpecLayout == LayoutInit /\ [][LayoutNext]_vars

\* One operation of the GUI thread at a time, each followed from its call to
\* its return: parse_recipe_file on each of the files, a run of
\* process_selected_recipes on each of the disks for the selections of
\* TermSlots, generate_recipe_pdf on each of LayoutRecipes.  The thread goes
\* on to the next statement of the operation it is in.
TermSlots ==
    {DefaultSlots,
     [i \in 1..NumDays |-> Pasta],
     [i \in 1..NumDays |-> IF i = 1 THEN Pasta ELSE IF i = 4 THEN Soup ELSE <<>>],
     [i \in 1..NumDays |-> IF i % 2 = 1 THEN Soup ELSE Pasta]}

TermSchedInit ==
    /\ CodecIdle /\ ParseIdle /\ LayoutIdle
    /\ recipes = load_recipes
    /\ selected_recipes \in TermSlots
    /\ picks = 0
    /\ processing_message = ""
    /\ disk \in Disks
    /\ run = IdleRun
    /\ runs = 0
    /\ served_schedule = NotServed
    /\ served_ingredients = NotServed

TermInit == ReadFileInit \/ TermSchedInit \/ LayoutInit

\* No other operation has been entered
ReadAlone == SchedIdle /\ LayoutIdle
RunAlone == CodecIdle /\ ParseIdle /\ LayoutIdle
LayoutAlone == CodecIdle /\ ParseIdle /\ SchedIdle

TermReadStep == ReadAlone /\ ReadFileNext
TermRunStart == RunAlone /\ EnterProcess
TermRunStep == RunAlone /\ ProcessStep
TermLayoutStep == LayoutAlone /\ LayoutNext

TermNext ==
    \/ TermReadStep
    \/ TermRunStart
    \/ TermRunStep
    \/ TermLayoutStep

\* The states in which the operation entered has a next statement: the
\* guards of TermReadStep, TermRunStep and TermLayoutStep, each of whose
\* steps changes p_pc or p_read, run, or l_block, l_lines or l_count
ReadCanStep == ReadAlone /\ p_pc \in {"idle", "loop"}
RunCanStep == RunAlone /\ run.pc \notin {"idle", "done"}
LayoutCanStep == LayoutAlone /\ (InAddText \/ HasBlock)

\* Weak fairness of the three steps, WF_vars(A) as []<>~ENABLED <<A>>_vars
\* \/ []<><<A>>_vars with the guard written for ENABLED <<A>>_vars
ReadGoesOn == []<>(~ReadCanStep) \/ []<><<TermReadStep>>_vars
RunGoesOn == []<>(~RunCanStep) \/ []<><<TermRunStep>>_vars
LayoutGoesOn == []<>(~LayoutCanStep) \/ []<><<TermLayoutStep>>_vars

SpecTerminate ==
    /\ TermInit
    /\ [][TermNext]_vars
    /\ ReadGoesOn
    /\ RunGoesOn
    /\ LayoutGoesOn

---------------------------------------------------------------------------
(* Claims about the record codec                                           *)

NoTabNewline(s) == ~Contains(s, "\t") /\ ~Contains(s, "\n")

\* The Recipe the form holds: its ingredients are the pieces save_recipe writes
ScreenRecipe(sc) ==
    [title |-> sc.title, from |-> sc.from, servings |-> sc.servings,
     prep_time |-> sc.prep_time, cook_time |-> sc.cook_time,
     total_time |-> sc.total_time,
     ingreds |-> IngredientItems(sc.ingredients),
     instructions |-> sc.instructions, notes |-> sc.notes]

\* No field string of the form holds a tab or a newline
TabFree(sc) ==
    /\ \A f \in ScalarFields : NoTabNewline(sc[f])
    /\ NoTabNewline(sc.ingredients)
    /\ \A i \in 1..Len(sc.instructions) : NoTabNewline(sc.instructions[i])
    /\ \A i \in 1..Len(sc.notes) : NoTabNewline(sc.notes[i])

\* An element of a section the format can carry: not blank, no surrounding
\* whitespace, not a marker line
PlainItem(s) == s # <<>> /\ Trim(s) = s /\ s \notin Markers

PlainRecipe(sc) ==
    /\ TabFree(sc)
    /\ \A f \in ScalarFields : Trim(sc[f]) = sc[f]
    /\ \A i \in 1..Len(ScreenRecipe(sc).ingreds) : PlainItem(ScreenRecipe(sc).ingreds[i])
    /\ \A i \in 1..Len(sc.instructions) : PlainItem(sc.instructions[i])
    /\ \A i \in 1..Len(sc.notes) : PlainItem(sc.notes[i])

\* The record on disk is the one save_recipe wrote for the form as it is,
\* and parse_recipe_file has read it
RoundTripDone == parsed.done /\ rec_file.bytes = Serialize(screen)

\* C1, as stated: for every Recipe whose field strings hold no tab and no
\* newline, parsing the record save_recipe wrote gives the Recipe back.
C1_RoundTripAsStated ==
    (RoundTripDone /\ TabFree(screen))
        => (parsed.ok /\ parsed.recipe = ScreenRecipe(screen))

\* C1, amended: the round trip holds for every Recipe whose field strings
\* hold no tab and no newline, whose scalar fields and section elements have
\* no leading or trailing whitespace, and whose section elements are not
\* empty and not one of the six marker lines.
C1_RoundTripPlain ==
    (RoundTripDone /\ PlainRecipe(screen))
        => (parsed.ok /\ parsed.recipe = ScreenRecipe(screen))

\* A plain Recipe with a title, two ingredients, an instruction and a note
\* was saved and parsed
C1_Witness ==
    /\ RoundTripDone
    /\ PlainRecipe(screen)
    /\ screen.title # <<>>
    /\ Len(parsed.recipe.ingreds) = 2
    /\ Len(parsed.recipe.instructions) = 1
    /\ Len(parsed.recipe.notes) = 1

\* The sequence of the recipe a section's body lines go to
SectionSeq(r, section) ==
    IF section = "Ingredients" THEN r.ingreds
    ELSE IF section = "Instructions" THEN r.instructions
    ELSE r.notes

StartOf(section) ==
    IF section = "Ingredients" THEN IngredientsStart
    ELSE IF section = "Instructions" THEN InstructionsStart
    ELSE NotesStart

EndOf(section) ==
    IF section = "Ingredients" THEN IngredientsEnd
    ELSE IF section = "Instructions" THEN InstructionsEnd
    ELSE NotesEnd

\* A step of the loop that read a line while a section was open
ReadInSection ==
    /\ p_pc = "loop" /\ p_pc' = "loop"
    /\ p_read' = p_read + 1
    /\ p_section # ""

\* The line is a marker: it has no tab and trims to one of the six markers
IsMarkerLine(line) == ~Contains(line, "\t") /\ Trim(line) \in Markers

\* The line is a section-body line: not blank, no tab, no marker
IsBodyLine(line) ==
    Trim(line) # <<>> /\ ~Contains(line, "\t") /\ Trim(line) \notin Markers

\* The body line just read went onto the open section's sequence
BodyKept ==
    IsBodyLine(p_line'.text) =>
        SectionSeq(p_recipe', p_section)
            = Append(SectionSeq(p_recipe, p_section), Trim(p_line'.text))

---------------------------------------------------------------------------
(* Claims about the scheduler                                              *)

RunReturned == run.pc = "done"
RunSucceeded == run.pc = "done" /\ run.result = "ok"

\* The lines of an artifact, as a reader of it gets them
ArtifactLines(file) ==
    LET items == Lines(file.bytes)
    IN  [k \in 1..Len(items) |-> items[k].text]

\* The ingredients the record codec yields for the recipe of each non-empty
\* slot, Monday to Sunday, one after the other
RECURSIVE CodecIngredients(_, _, _)
CodecIngredients(dinner, slots, i) ==
    IF i > Len(slots) THEN <<>>
    ELSE IF slots[i] = <<>> THEN CodecIngredients(dinner, slots, i + 1)
    ELSE parse_recipe_file(Lookup(dinner, slots[i])).recipe.ingreds
             \o CodecIngredients(dinner, slots, i + 1)

\* C3: after a successful materialization the shopping list is, one entry
\* per line, the concatenation in Monday-to-Sunday order of the ingredient
\* sequences parse_recipe_file yields for the assigned recipes.
C3_ShoppingListIsCodecIngredients ==
    RunSucceeded =>
        /\ disk.ingredients.exists
        /\ ArtifactLines(disk.ingredients) = CodecIngredients(disk.dinner, run.slots, 1)

\* The persisted artifacts of schedule/
Artifacts(d) == <<d.days, d.ingredients, d.schedule>>

\* C4: a run that returns an error leaves every persisted artifact as it was
\* before the run.
C4_FailedRunChangesNothing ==
    [][(runs' = runs + 1 /\ run'.result = "err")
        => Artifacts(disk') = Artifacts(disk)]_vars

\* C6: there are always exactly seven slots, one per label of Monday to
\* Sunday in that order, whatever was selected or randomized (also with an
\* index past the last slot); materialization copies nothing for an empty
\* slot and an empty slot never makes it fail.
C6_SevenSlots ==
    /\ Len(selected_recipes) = NumDays
    /\ Len(Days) = NumDays
    /\ RunReturned =>
           /\ Len(run.slots) = NumDays
           /\ \A i \in run.copied : run.slots[i] # <<>>
           /\ (run.result = "err" /\ disk.writable)
                  => (run.i \in 1..NumDays /\ run.slots[run.i] # <<>>)

\* A run succeeded on slots of which some are empty and some are not
C6_Witness ==
    /\ RunSucceeded
    /\ run.copied # {}
    /\ \E i \in 1..NumDays : run.slots[i] = <<>>

\* The report the claim describes: a line "<DayLabel>: <name>" per non-empty
\* slot, Monday to Sunday
RECURSIVE ReportOf(_, _)
ReportOf(slots, i) ==
    IF i > Len(slots) THEN <<>>
    ELSE (IF slots[i] = <<>> THEN <<>>
          ELSE Days[i] \o <<":", " ">> \o slots[i] \o <<"\n">>)
         \o ReportOf(slots, i + 1)

\* C9: after a successful materialization the schedule report holds exactly
\* one line "<DayLabel>: <name>" with its newline per non-empty slot, in
\* Monday-to-Sunday order, and none for an empty slot.
C9_ScheduleReport ==
    RunSucceeded => disk.schedule = File(ReportOf(run.slots, 1))

\* Monday = Pasta, Sunday = Soup, the other slots empty:
\* "Monday: Pasta\nSunday: Soup\n"
C9_Witness ==
    /\ RunSucceeded
    /\ run.slots = [i \in 1..NumDays |->
                        IF i = 1 THEN Pasta ELSE IF i = 7 THEN Soup ELSE <<>>]
    /\ disk.schedule.bytes =
           Monday \o <<":", " ">> \o Pasta \o <<"\n">>
           \o Sunday \o <<":", " ">> \o Soup \o <<"\n">>

AllEmpty(slots) == \A i \in 1..Len(slots) : slots[i] = <<>>

\* C10: materializing seven empty slots copies no record and, schedule/
\* being writable, succeeds and leaves the shopping list and the schedule
\* report empty.
C10_AllEmptySchedule ==
    (RunReturned /\ AllEmpty(run.slots)) =>
        /\ run.copied = {}
        /\ disk.writable =>
               /\ run.result = "ok"
               /\ disk.ingredients = File(<<>>)
               /\ disk.schedule = File(<<>>)

\* Seven empty slots were materialized over an earlier run's artifacts
C10_Witness ==
    /\ RunSucceeded
    /\ AllEmpty(run.slots)
    /\ disk.days[2].exists
    /\ disk.ingredients = File(<<>>)
    /\ disk.schedule = File(<<>>)

---------------------------------------------------------------------------
(* Claims about the run beside the web server                              *)

MidRun == run.pc \notin {"idle", "done"}

\* C5: nothing holds a reader back during a run, and what it finds is a mix:
\* the day copies made so far are the new run's beside the previous run's
\* summaries; then the shopping list is truncated, then it is the new run's
\* while the schedule report is still the previous run's, then the report is
\* truncated.
C5_MixedArtifactsMidRun ==
    /\ MidRun =>
           \A i \in 1..NumDays :
               disk.days[i] = IF i \in run.copied
                              THEN Lookup(disk.dinner, run.slots[i])
                              ELSE run.before.days[i]
    /\ run.pc \in {"create_dir", "day", "read", "create_ingredients"} =>
           /\ disk.ingredients = run.before.ingredients
           /\ disk.schedule = run.before.schedule
    /\ run.pc = "write_ingredients" =>
           /\ disk.ingredients = File(<<>>)
           /\ disk.schedule = run.before.schedule
    /\ run.pc = "create_schedule" =>
           /\ disk.ingredients = File(run.process_ingredients)
           /\ disk.schedule = run.before.schedule
    /\ run.pc = "write_schedule" =>
           /\ disk.ingredients = File(run.process_ingredients)
           /\ disk.schedule = File(<<>>)

\* Between the two summaries' writes, with day copies of the new run made,
\* GET /ingredients was answered with the new run's list and GET /schedule
\* with the previous run's report, and both answers are what the disk holds
C5_Witness ==
    /\ run.pc = "create_schedule"
    /\ run.copied # {}
    /\ served_ingredients = ingredients(disk)
    /\ served_schedule = schedule(disk)
    /\ served_ingredients.status = "ok"
    /\ served_schedule.status = "ok"
    /\ served_schedule = schedule(run.before)
    /\ served_ingredients # ingredients(run.before)
    /\ File(run.process_schedule) # run.before.schedule

---------------------------------------------------------------------------
(* Claims about the layout                                                 *)

\* The width of a line of wrap_text by wrap_text's own measures, in tenths:
\* CharWidth10 per byte of a word and SpaceWidth10 per separating space
\* (current_line.len() counts a space as a byte of a word, which is more)
LineWidth10(line, size) ==
    LET inked == Cardinality({i \in 1..Len(line) : ~IsWhitespace(line[i])})
    IN  inked * CharWidth10(size) + (Len(line) - inked) * SpaceWidth10(size)

\* C7: no line of wrap_text of more than one word is wider than the page
\* width minus twice the margin.
C7_LineWithinPageWidth ==
    (l_count > 0 /\ Len(SplitWhitespace(l_last.text)) > 1)
        => LineWidth10(l_last.text, l_last.size) <= (PageWidth - 2 * Margin) * 10

\* C8: a line is placed at the cursor when the cursor is not below the
\* bottom margin, and else at starting_y on a page opened for it; so it is
\* placed between the bottom margin and starting_y, the cursor right after
\* it is not lower than the bottom margin minus the line's height, and a
\* page is opened by nothing but the placing of a line.
C8_PageBeforeLine ==
    [][/\ (l_count' = l_count + 1) =>
              /\ (y_position >= BottomMargin) =>
                     (l_last'.y = y_position /\ current_page' = current_page)
              /\ (y_position < BottomMargin) =>
                     (l_last'.y = StartingY /\ current_page' = current_page + 1)
              /\ l_last'.page = current_page'
              /\ l_last'.y >= BottomMargin /\ l_last'.y <= StartingY
              /\ y_position' = l_last'.y - (l_last'.size + LineGap)
              /\ y_position' >= BottomMargin - (l_last'.size + LineGap)
       /\ (current_page' # current_page) =>
              (l_count' = l_count + 1 /\ y_position < BottomMargin)]_vars

\* The first line of the second page was placed at starting_y
C8_Witness ==
    /\ current_page = 2
    /\ l_last.page = 2
    /\ l_last.y = StartingY
    /\ y_position = StartingY - (l_last.size + LineGap)

---------------------------------------------------------------------------
(* Claims about randomize_all and randomize_single                         *)

\* The identifiers of the pool
PoolMembers == {recipes[j] : j \in 1..Len(recipes)}

\* What a slot may hold after a draw: a member of the pool, and the empty
\* identifier when the pool is empty
Drawn(v) == IF recipes = <<>> THEN v = <<>> ELSE v \in PoolMembers

\* C11: whatever the slots hold, randomize_all gives seven slots that each
\* hold a member of the pool, and randomize_single(idx) for a slot idx gives
\* seven slots of which slot idx holds one; when the pool is empty they hold
\* the empty identifier.  Neither has a failing case.
C11_DrawsFromPool ==
    /\ \A draws \in [DOMAIN selected_recipes -> Draws(recipes)] :
           LET after == randomize_all(selected_recipes, recipes, draws)
           IN  /\ DOMAIN after = 1..NumDays
               /\ \A i \in 1..NumDays : Drawn(after[i])
    /\ \A idx \in 1..NumDays, draw \in Draws(recipes) :
           LET after == randomize_single(selected_recipes, recipes, idx, draw)
           IN  /\ DOMAIN after = 1..NumDays
               /\ Drawn(after[idx])

\* randomize_all on the pool of two filled the seven slots, Monday and
\* Tuesday with the same recipe
C11_Witness ==
    /\ picks = 1
    /\ Len(recipes) = 2
    /\ \A i \in 1..NumDays : selected_recipes[i] \in PoolMembers
    /\ selected_recipes[1] = selected_recipes[2]
    /\ selected_recipes[1] # selected_recipes[3]

\* The assignments randomize_all may leave from this state.  The function
\* takes no seed: thread_rng() is made inside it, so all that a caller fixes
\* is the pool and the slots.
AssignmentsOfRandomizeAll ==
    {randomize_all(selected_recipes, recipes, draws) :
        draws \in [DOMAIN selected_recipes -> Draws(recipes)]}

\* C12: two runs of randomize_all started from the same pool with the same
\* seed leave the same assignment in all seven slots; of the code, which has
\* no seed to give, this says that the pool determines the assignment.
C12_SameInputsSameAssignment ==
    \A a1 \in AssignmentsOfRandomizeAll, a2 \in AssignmentsOfRandomizeAll : a1 = a2

---------------------------------------------------------------------------
(* Claims about save_recipe                                                *)

\* The lines the claim describes for the form: six header lines, then per
\* section its Start line, a line per element and its End line
ExpectedLines(sc) ==
    <<KTitle \o TAB \o sc.title,
      KFrom \o TAB \o sc.from,
      KServings \o TAB \o sc.servings,
      KPrepTime \o TAB \o sc.prep_time,
      KCookTime \o TAB \o sc.cook_time,
      KTotalTime \o TAB \o sc.total_time>>
    \o <<IngredientsStart>> \o ScreenRecipe(sc).ingreds \o <<IngredientsEnd>>
    \o <<InstructionsStart>> \o sc.instructions \o <<InstructionsEnd>>
    \o <<NotesStart>> \o sc.notes \o <<NotesEnd>>

\* The record save_recipe wrote for the form as it is
Saved == rec_file.exists /\ rec_file.bytes = Serialize(screen)

\* The record is these lines, each ended by a newline
IsLines(bytes, lines) ==
    /\ bytes # <<>> /\ bytes[Len(bytes)] = "\n"
    /\ ArtifactLines([bytes |-> bytes]) = lines

NoNewline(sc) ==
    /\ \A f \in ScalarFields : ~Contains(sc[f], "\n")
    /\ ~Contains(sc.ingredients, "\n")
    /\ \A i \in 1..Len(sc.instructions) : ~Contains(sc.instructions[i], "\n")
    /\ \A i \in 1..Len(sc.notes) : ~Contains(sc.notes[i], "\n")

\* C13, as stated: for every Recipe the record is the six header lines and,
\* per section, Start, exactly one line per element, End.
C13_OneLinePerElementAsStated ==
    Saved => IsLines(rec_file.bytes, ExpectedLines(screen))

\* C13, amended: so it is for every Recipe no field of which holds a
\* newline; the sequences of the form are never empty (no ingredients text
\* gives one empty line between the markers).
C13_OneLinePerElement ==
    (Saved /\ NoNewline(screen)) =>
        /\ IsLines(rec_file.bytes, ExpectedLines(screen))
        /\ ScreenRecipe(screen).ingreds # <<>>
        /\ screen.instructions # <<>>
        /\ screen.notes # <<>>

\* A form with an empty title, no ingredients text, two instructions of
\* which the second is empty, and a note was saved
C13_Witness ==
    /\ Saved /\ NoNewline(screen)
    /\ screen.title = <<>>
    /\ screen.from # <<>>
    /\ screen.ingredients = <<>>
    /\ Len(screen.instructions) = 2
    /\ screen.instructions[2] = <<>>
    /\ screen.notes[1] # <<>>

---------------------------------------------------------------------------
(* Claims about parse_recipe_file on a file                                *)

\* parse_recipe_file has returned; what it returned
Returned == p_pc \in {"ok", "err"}
ReturnedValue == [ok |-> p_pc = "ok", recipe |-> p_recipe]

\* The recipe built from all the lines of the file
RECURSIVE BuiltFrom(_, _)
BuiltFrom(items, n) ==
    IF n = 0 THEN ParseStart
    ELSE ParseLine(BuiltFrom(items, n - 1), items[n].text)

\* C14: parse_recipe_file returns either the Recipe built from the whole
\* input, or the error of the open or read that failed and no Recipe; a read
\* error after some lines leaves no partly filled Recipe.
C14_WholeRecipeOrError ==
    /\ p_pc = "ok" =>
           /\ rec_file.exists
           /\ p_read = Len(ReadItems)
           /\ \A i \in 1..Len(ReadItems) : ReadItems[i].ok
           /\ p_recipe = BuiltFrom(ReadItems, Len(ReadItems)).recipe
    /\ p_pc = "err" =>
           /\ p_recipe = EmptyRecipe
           /\ \/ ~rec_file.exists
              \/ /\ p_read \in 1..Len(ReadItems)
                 /\ ~ReadItems[p_read].ok
                 /\ \A i \in 1..(p_read - 1) : ReadItems[i].ok
    /\ Returned => ReturnedValue = parse_recipe_file(rec_file)

\* The third line of a file could not be read after its first two had
\* filled a field and a section
C14_Witness ==
    /\ p_pc = "err"
    /\ p_read = 3
    /\ BuiltFrom(ReadItems, 2).recipe.title # <<>>
    /\ BuiltFrom(ReadItems, 2).recipe.ingreds = <<>>
    /\ BuiltFrom(ReadItems, 2).section = "Ingredients"

---------------------------------------------------------------------------
(* Claims about the copies of a run                                        *)

\* C15: after a run that succeeded, schedule/<Day>.rec of every non-empty
\* slot holds the bytes of the record of recipes/dinner the slot names, and
\* no step changes a record of recipes/dinner.
C15_CopyIsTheRecord ==
    /\ [](RunSucceeded =>
            \A i \in 1..NumDays :
                run.slots[i] # <<>> =>
                    /\ run.slots[i] \in DOMAIN disk.dinner
                    /\ disk.dinner[run.slots[i]].exists
                    /\ disk.days[i] = disk.dinner[run.slots[i]])
    /\ [][disk'.dinner = disk.dinner]_vars

\* A run succeeded with Monday = Pasta and Tuesday = Soup where an earlier
\* run had left Pasta's record as Tuesday.rec
C15_Witness ==
    /\ RunSucceeded
    /\ run.before.days[2] = File(PastaRecord)
    /\ run.slots[1] = Pasta
    /\ run.slots[2] = Soup
    /\ disk.days[1] = File(PastaRecord)
    /\ disk.days[2] = File(SoupRecord)

---------------------------------------------------------------------------
(* Claims about the lines of parse_recipe_file                             *)

\* The loop read a line
ReadALine == p_pc = "loop" /\ p_pc' = "loop" /\ p_read' = p_read + 1

\* The text before and after the first tab of a line that has one
FirstTab(line) ==
    CHOOSE i \in 1..Len(line) :
        line[i] = "\t" /\ \A j \in 1..(i - 1) : line[j] # "\t"
BeforeTab(line) == SubSeq(line, 1, FirstTab(line) - 1)
AfterTab(line) == SubSeq(line, FirstTab(line) + 1, Len(line))

\* The field of each known key
FieldOf ==
    (KTitle :> "title") @@ (KFrom :> "from") @@ (KServings :> "servings")
    @@ (KPrepTime :> "prep_time") @@ (KCookTime :> "cook_time")
    @@ (KTotalTime :> "total_time")

IsHeaderLine(line) == Trim(line) # <<>> /\ Contains(line, "\t")

\* The line just read, a header line of key `key`, did what the rule says
HeaderRule(key) ==
    /\ p_section' = p_section
    /\ IF key \in DOMAIN FieldOf
       THEN p_recipe' = [p_recipe EXCEPT ![FieldOf[key]] = Trim(AfterTab(p_line'.text))]
       ELSE p_recipe' = p_recipe

\* C17, as stated: a non-blank line with a tab sets the field whose key is
\* the text before the first tab to the trimmed text after it, changes
\* nothing when that text is none of the six keys, and in both cases leaves
\* the sections and current_section alone.
C17_HeaderRuleAsStated ==
    [][(ReadALine /\ IsHeaderLine(p_line'.text))
        => HeaderRule(BeforeTab(p_line'.text))]_vars

\* C17, amended: the key is the text before the first tab, trimmed.
C17_HeaderRuleTrimmedKey ==
    [][(ReadALine /\ IsHeaderLine(p_line'.text))
        => HeaderRule(Trim(BeforeTab(p_line'.text)))]_vars

\* With Notes open and a note collected, a header line of two tabs set From
\* to the text after the first tab
C17_Witness ==
    /\ p_pc = "loop"
    /\ p_section = "Notes"
    /\ p_recipe.notes # <<>>
    /\ p_line.text = KFrom \o TAB \o <<"x", "\t", "y">>
    /\ p_recipe.from = <<"x", "\t", "y">>

\* The values current_section takes
SectionStates == {"", "Ingredients", "Instructions", "Notes"}

\* C18: current_section is always none or one of Ingredients, Instructions,
\* Notes, and a line without a tab that is no marker, read while it is none,
\* is discarded: no field and no sequence of the recipe changes.
C18_SectionStatesAndDiscard ==
    /\ [](p_section \in SectionStates)
    /\ [][(ReadALine /\ p_section = ""
            /\ ~Contains(p_line'.text, "\t")
            /\ Trim(p_line'.text) \notin Markers)
          => (p_recipe' = p_recipe /\ p_section' = "")]_vars

\* The file ended on the line `b`, read after Ingredients had been closed
\* with one ingredient; the recipe holds that ingredient only
C18_Witness ==
    /\ p_pc = "ok"
    /\ p_read = 4
    /\ p_section = ""
    /\ p_line.text = <<"b">>
    /\ p_recipe = [EmptyRecipe EXCEPT !.ingreds = << <<"c">> >>]

---------------------------------------------------------------------------
(* Claims about blank lines                                                *)

\* A line that was read and is empty or holds whitespace only
IsBlankItem(item) == item.ok /\ Trim(item.text) = <<>>
IsNoBlankItem(item) == ~IsBlankItem(item)

\* The lines of the file without its blank lines
WithoutBlank(items) == SelectSeq(items, IsNoBlankItem)

\* The elements of the three sequences of a recipe
Elements(r) ==
    {r.ingreds[i] : i \in 1..Len(r.ingreds)}
    \cup {r.instructions[i] : i \in 1..Len(r.instructions)}
    \cup {r.notes[i] : i \in 1..Len(r.notes)}

\* C19: blank lines are ignored everywhere: what parse_recipe_file returns
\* for a file is what it returns for the file's lines with the blank ones
\* removed (so files that differ in blank lines only give the same Recipe),
\* reading a blank line changes neither the recipe nor current_section, and
\* no element of ingredients, instructions or notes is empty.
C19_BlankLinesIgnored ==
    /\ [](rec_file.exists =>
            parse_recipe_file(rec_file)
                = ParseLoop(WithoutBlank(ReadItems), 1, ParseStart))
    /\ []((Returned /\ rec_file.exists) =>
            ReturnedValue = ParseLoop(WithoutBlank(ReadItems), 1, ParseStart))
    /\ [](\A e \in Elements(p_recipe) : e # <<>>)
    /\ [][(ReadALine /\ IsBlankItem(p_line'))
          => (p_recipe' = p_recipe /\ p_section' = p_section)]_vars

\* A file of `Ingredients Start`, a line of one space and `b` with a CR was
\* parsed: its only ingredient is b
C19_Witness ==
    /\ p_pc = "ok"
    /\ Len(ReadItems) = 3
    /\ ReadItems[2].text = <<" ">>
    /\ Len(WithoutBlank(ReadItems)) = 2
    /\ p_section = "Ingredients"
    /\ p_recipe.ingreds = << <<"b">> >>

---------------------------------------------------------------------------
(* Claims about wrap_text                                                  *)

\* The strings of a sequence joined with single spaces
RECURSIVE Join(_)
Join(ss) ==
    IF ss = <<>> THEN <<>>
    ELSE IF Len(ss) = 1 THEN ss[1]
    ELSE ss[1] \o <<" ">> \o Join(Tail(ss))

\* A word wider than the limit at a font size
IsWide(word, font_size) == Len(word) * CharWidth10(font_size) > max_width * 10

\* What the claim says of the lines wrap_text gives for a text
WrapLaw(text, font_size) ==
    LET lines == wrap_text(text, font_size, max_width)
        words == SplitWhitespace(text)
    IN  /\ Join(lines) = Join(words)
        /\ \A k \in 1..Len(lines) :
               /\ lines[k] # <<>>
               /\ \A w \in 1..Len(SplitWhitespace(lines[k])) :
                      IsWide(SplitWhitespace(lines[k])[w], font_size)
                          => lines[k] = SplitWhitespace(lines[k])[w]
        /\ words = <<>> => lines = <<>>

\* Texts of whitespace only
BlankTexts == {<<>>, <<" ">>, <<" ", "\t", " ">>}

\* C20: for the text of the add_text call at hand, the lines of wrap_text
\* joined with single spaces are the text's words joined with single
\* spaces, no line is empty, a word wider than max_width is a line of its
\* own, and a text without words (empty, or whitespace only) gives no line;
\* the lines still to place are the last of those lines.
C20_WordsKept ==
    /\ (l_block <= Len(Blocks(l_recipe)) /\ ~NextBlock.space) =>
           LET wrapped_lines == wrap_text(NextBlock.text, NextBlock.size, max_width)
           IN  /\ WrapLaw(NextBlock.text, NextBlock.size)
               /\ \E n \in 0..Len(wrapped_lines) :
                      l_lines = SubSeq(wrapped_lines, n + 1, Len(wrapped_lines))
    /\ \A t \in BlankTexts, size \in {TitleSize, DetailSize, HeadingSize, ItemSize} :
           wrap_text(t, size, max_width) = <<>>

\* The title of a short word, a word wider than max_width and a short word
\* was wrapped into three lines, of which the first has been placed
C20_Witness ==
    /\ InAddText
    /\ l_block = 1
    /\ l_count = 1
    /\ l_last.text = <<"a">>
    /\ Len(l_lines) = 2
    /\ IsWide(l_lines[1], TitleSize)
    /\ l_lines[2] = <<"a">>

---------------------------------------------------------------------------
(* Claims about termination                                                *)

\* The words of a sequence of lines, counted
RECURSIVE WordCount(_)
WordCount(lines) ==
    IF lines = <<>> THEN 0
    ELSE Len(SplitWhitespace(Head(lines))) + WordCount(Tail(lines))

\* The lines wrap_text gives for the first n add_text calls, counted
RECURSIVE WrappedCount(_, _)
WrappedCount(blocks, n) ==
    IF n = 0 THEN 0
    ELSE WrappedCount(blocks, n - 1)
         + (IF blocks[n].space THEN 0
            ELSE Len(wrap_text(blocks[n].text, blocks[n].size, max_width)))

LayoutEntered == l_block > 1 \/ InAddText
LayoutReturned == ~InAddText /\ l_block > Len(Blocks(l_recipe))
RunEntered == run.pc \notin {"idle", "done"}

\* An operation has been entered and has not returned
InProgress ==
    \/ p_pc = "loop"
    \/ RunEntered
    \/ LayoutEntered /\ ~LayoutReturned

\* parse_recipe_file takes the lines one by one, each once, and never more
\* than the file has
LinesOnce ==
    /\ p_read' <= Len(ReadItems)
    /\ p_read' # p_read => (p_read' = p_read + 1 /\ p_line' = ReadItems[p_read'])
    /\ p_pc' = "ok" => p_read' = Len(ReadItems)

\* wrap_text puts each word of the text on one line
WordsOnce ==
    (HasBlock /\ ~NextBlock.space) =>
        WordCount(wrap_text(NextBlock.text, NextBlock.size, max_width))
            = Len(SplitWhitespace(NextBlock.text))

\* add_text places the wrapped lines one by one, each once, and a step
\* opens at most one page, and only when it places a line
PlacedOnce ==
    /\ l_count' # l_count =>
           /\ l_count' = l_count + 1
           /\ InAddText
           /\ l_last'.text = Head(l_lines)
           /\ l_lines' = Tail(l_lines)
    /\ current_page' # current_page =>
           (current_page' = current_page + 1 /\ l_count' = l_count + 1)
    /\ LayoutReturned' =>
           l_count' = WrappedCount(Blocks(l_recipe), Len(Blocks(l_recipe)))

\* C16: parse_recipe_file, process_selected_recipes and generate_recipe_pdf
\* each return once entered; parse takes each line once, wrap_text each word
\* once, the layout places each wrapped line once and opens at most one
\* page per line.
C16_OperationsReturn ==
    /\ [][LinesOnce /\ WordsOnce /\ PlacedOnce]_vars
    /\ InProgress ~> ~InProgress

\* generate_recipe_pdf returned after it had placed lines on a second page
C16_Witness ==
    /\ LayoutReturned
    /\ current_page = 2
    /\ l_count > Len(Blocks(l_recipe))

\* parse_recipe_file returned a recipe for a file of MaxFileLines lines
C16_WitnessParse ==
    /\ p_pc = "ok"
    /\ p_read = MaxFileLines
    /\ p_recipe.ingreds # <<>>

\* process_selected_recipes returned Ok for seven copies
C16_WitnessRun == RunSucceeded /\ run.copied = 1..NumDays

---------------------------------------------------------------------------
(* Claims about the order of the layout                                    *)

\* The texts in the order the claim gives: title, the five details, the
\* Ingredients heading and the ingredients, the Instructions heading and
\* the instructions, and the Notes heading and the notes when there are notes
OrderedTexts(r) ==
    <<r.title,
      <<"F","r","o","m",":"," ">> \o r.from,
      <<"S","e","r","v","i","n","g","s",":"," ">> \o r.servings,
      <<"P","r","e","p"," ","T","i","m","e",":"," ">> \o r.prep_time,
      <<"C","o","o","k"," ","T","i","m","e",":"," ">> \o r.cook_time,
      <<"T","o","t","a","l"," ","T","i","m","e",":"," ">> \o r.total_time,
      <<"I","n","g","r","e","d","i","e","n","t","s",":">> >>
    \o [k \in 1..Len(r.ingreds) |-> Bullet \o <<" ">> \o r.ingreds[k]]
    \o << <<"I","n","s","t","r","u","c","t","i","o","n","s",":">> >>
    \o r.instructions
    \o (IF r.notes = <<>> THEN <<>>
        ELSE << <<"N","o","t","e","s",":">> >> \o r.notes)

\* The add_text calls made so far, the one at hand included
TextsEntered == Cardinality({b \in 1..l_block : ~Blocks(l_recipe)[b].space})

\* A line was placed
LinePlaced == l_count' = l_count + 1

---------------------------------------------------------------------------
(* Claims about the section markers                                        *)

EndMarkers == {IngredientsEnd, InstructionsEnd, NotesEnd}

\* The section a Start marker opens
OpenedBy(marker) ==
    IF marker = IngredientsStart THEN "Ingredients"
    ELSE IF marker = InstructionsStart THEN "Instructions"
    ELSE "Notes"

\* The loop read a marker line
ReadAMarker == ReadALine /\ IsMarkerLine(p_line'.text)

\* C22: a line that trims to one of the three End markers sets the current
\* section to none whichever section is open; a line that trims to a Start
\* marker sets the current section to the one it names whichever section is
\* open; a marker line leaves the recipe, and so the lines collected
\* earlier, as it was; and no sequence of the recipe ever holds a marker.
C22_MarkerTransitions ==
    /\ [][(ReadAMarker /\ Trim(p_line'.text) \in EndMarkers)
            => p_section' = ""]_vars
    /\ [][(ReadAMarker /\ Trim(p_line'.text) \notin EndMarkers)
            => p_section' = OpenedBy(Trim(p_line'.text))]_vars
    /\ [][ReadAMarker => p_recipe' = p_recipe]_vars
    /\ [](Elements(p_recipe) \cap Markers = {})

\* Instructions Start was read while Ingredients was open with a line
\* collected, a line went to the instructions, and Notes End closed the
\* section
C22_Witness ==
    /\ p_pc = "loop"
    /\ p_read = 5
    /\ p_line.text = NotesEnd
    /\ p_section = ""
    /\ p_recipe.ingreds # <<>>
    /\ p_recipe.instructions # <<>>
    /\ p_recipe.notes = <<>>

---------------------------------------------------------------------------
(* Claims about the per-day copies of empty slots                          *)

\* The slots of the run that are empty
EmptySlots(r) == {i \in 1..Len(r.slots) : r.slots[i] = <<>>}

\* C23: a run of process_selected_recipes, successful or not, leaves
\* schedule/<Day>.rec of every empty slot as it was: there or not there, and
\* with the same bytes.
C23_EmptySlotCopyUntouched ==
    /\ [][(runs' = runs + 1)
            => \A i \in EmptySlots(run') : disk'.days[i] = disk.days[i]]_vars
    /\ [](RunReturned
            => \A i \in EmptySlots(run) : disk.days[i] = run.before.days[i])

\* A run of Monday = Pasta alone succeeded where an earlier run had left
\* Pasta's record as Tuesday.rec: the report has Monday's line only and
\* Tuesday.rec is still there
C23_Witness ==
    /\ RunSucceeded
    /\ run.slots = [i \in 1..NumDays |-> IF i = 1 THEN Pasta ELSE <<>>]
    /\ disk.schedule = File(Monday \o <<":", " ">> \o Pasta \o <<"\n">>)
    /\ run.before.days[2] = File(PastaRecord)
    /\ disk.days[2] = File(PastaRecord)

===========================================================================
